---- MODULE Spec2Model ----
(***************************************************************************)
(* Model of the catalog endpoint layer of backend/routes/api/library.js:   *)
(* the four GET handlers (list by page, search by keyword, lookup by       *)
(* identifier, list by genre), one request at a time, each handler split   *)
(* at its awaits.  The upstream services (yts, popcorn, the search API and *)
(* the extra-info fetch) are the variable `up`, fixed when the request     *)
(* arrives.  ../../utils/LibraryFunctions is not part of the sources at    *)
(* hand; its five functions are modelled from the specification.           *)
(***************************************************************************)
EXTENDS Integers, Sequences, FiniteSets, TLC

\* ------------------------------------------------------------------ bounds
MaxMovies == 2      \* longest list a provider returns for a page or a genre
MaxTorrents == 2    \* most torrents inside one record (lookup by identifier)
MaxCand == 2        \* most entries in the search provider's Search array

Ids == {"tt1", "tt2"}
Ratings == {7, 8}
SeedVals == {10, 50, 80}
SortFields == {"rating", "year"}
Genres == {"action"}
Keywords == {"alien"}

SeqUpTo(S, n) == UNION {[1..k -> S] : k \in 0..n}
NonEmptySeqUpTo(S, n) == UNION {[1..k -> S] : k \in 1..n}

\* ------------------------------------------------------- JavaScript values
\* false / undefined / "" (every falsy value the handlers test with `!x`)
Falsy == [t |-> "false"]
List(v) == [t |-> "list", v |-> v]
Msg(m) == [t |-> "msg", msg |-> m]

\* `!x`: an array, even an empty one, is truthy
Not(x) == x.t = "false"

\* _.isEmpty(x): falsy values and arrays of length 0
isEmpty(x) == IF x.t = "list" THEN Len(x.v) = 0 ELSE TRUE

\* _.concat(a, b)
concat(a, b) == a \o b

\* _.uniqBy(list, key): the first occurrence of every key value, in order
RECURSIVE uniqBy(_, _)
uniqBy(list, key) ==
  IF list = <<>> THEN <<>>
  ELSE LET front == uniqBy(SubSeq(list, 1, Len(list) - 1), key)
           last == list[Len(list)]
       IN IF \E i \in 1..Len(front) : front[i][key] = last[key]
          THEN front
          ELSE Append(front, last)

TitleOf(id) == IF id = "tt1" THEN "Brazil" ELSE "Alien"
YearOf(id) == IF id = "tt1" THEN 1985 ELSE 1979
TitleRank(title) == IF title = "Alien" THEN 1 ELSE 2

\* the value _.orderBy compares for a record
SortKey(rec, key) == IF key = "title" THEN TitleRank(rec.title) ELSE rec[key]

\* a before b under direction dir, strictly
Before(a, b, dir) == IF dir = "desc" THEN a > b ELSE a < b

\* _.orderBy(list, key, dir): a stable sort
RECURSIVE orderBy(_, _, _)
orderBy(list, key, dir) ==
  IF list = <<>> THEN <<>>
  ELSE LET front == orderBy(SubSeq(list, 1, Len(list) - 1), key, dir)
           last == list[Len(list)]
           n == Cardinality({i \in 1..Len(front) :
                  ~Before(SortKey(last, key), SortKey(front[i], key), dir)})
       IN SubSeq(front, 1, n) \o <<last>> \o SubSeq(front, n + 1, Len(front))

\* --------------------------------------------------- provider payloads
YtsRaw(id, rating, seeds) ==
  [imdb_code |-> id, title |-> TitleOf(id), year |-> YearOf(id),
   rating |-> rating, torrents |-> [i \in 1..Len(seeds) |-> [seeds |-> seeds[i]]]]

PopRaw(id, rating, seeds) ==
  [imdb_id |-> id, title |-> TitleOf(id), year |-> YearOf(id),
   rating |-> rating, torrents |-> [i \in 1..Len(seeds) |-> [seed |-> seeds[i]]]]

\* utils/LibraryFunctions formatYtsResponse: the common record shape
formatYtsResponse(raw) ==
  [i \in 1..Len(raw) |->
     [imdb_code |-> raw[i].imdb_code, title |-> raw[i].title, year |-> raw[i].year,
      rating |-> raw[i].rating, torrents |-> raw[i].torrents, info |-> FALSE]]

\* utils/LibraryFunctions formatPopResponse: the common record shape
formatPopResponse(raw) ==
  [i \in 1..Len(raw) |->
     [imdb_code |-> raw[i].imdb_id, title |-> raw[i].title, year |-> raw[i].year,
      rating |-> raw[i].rating,
      torrents |-> [j \in 1..Len(raw[i].torrents) |-> [seeds |-> raw[i].torrents[j].seed]],
      info |-> FALSE]]

\* utils/LibraryFunctions getMovieMoreInfo: every record enriched, a falsy
\* argument handed back as it is
getMovieMoreInfo(x) ==
  IF x.t = "list"
  THEN List([i \in 1..Len(x.v) |-> [x.v[i] EXCEPT !.info = TRUE]])
  ELSE x

\* utils/LibraryFunctions getMovies: the provider's page, normalized, or falsy
getMovies(page, provider) ==
  IF page.t = "list"
  THEN List(IF provider = "yts" THEN formatYtsResponse(page.v)
            ELSE formatPopResponse(page.v))
  ELSE Falsy

MaxSeed(rec) ==
  LET s == {rec.torrents[i].seeds : i \in 1..Len(rec.torrents)}
  IN IF s = {} THEN 0 ELSE CHOOSE m \in s : \A n \in s : n <= m

\* _.uniqWith(movies, retMax): per identifier the record with the greatest
\* maximum seed count, the earlier one when equal
uniqWith_retMax(movies) ==
  LET keep(i) == \A j \in 1..Len(movies) :
                   (j # i /\ movies[j].imdb_code = movies[i].imdb_code)
                     => (MaxSeed(movies[j]) < MaxSeed(movies[i])
                         \/ (MaxSeed(movies[j]) = MaxSeed(movies[i]) /\ i < j))
      idx == {i \in 1..Len(movies) : keep(i)}
      RECURSIVE pick(_)
      pick(n) == IF n = 0 THEN <<>>
                 ELSE IF n \in idx THEN Append(pick(n - 1), movies[n])
                 ELSE pick(n - 1)
  IN pick(Len(movies))

\* ------------------------------------------------------------------- state
VARIABLES
  pc,          \* position of the running handler
  handler,     \* "page" | "keyword" | "imdb_code" | "genre" | "none"
  query,       \* req.query / req.params
  up,          \* what each upstream service answers during this request
  ytsResult,   \* ytsResult / ytsData
  popResult,   \* popResult / popData
  body,        \* body.Search after line 84
  movies,      \* the keyword handler's accumulator
  index,       \* loop index of the keyword handler
  torrentFail, \* the keyword handler's flag
  calls,       \* upstream requests issued, in order
  sent,        \* responses written to res, in order
  raised       \* an upstream step of this request threw

vars == <<pc, handler, query, up, ytsResult, popResult, body, movies, index,
          torrentFail, calls, sent, raised>>

Init ==
  /\ pc = "idle"
  /\ handler = "none"
  /\ query = [valid |-> TRUE]
  /\ up = [none |-> TRUE]
  /\ ytsResult = Falsy
  /\ popResult = Falsy
  /\ body = <<>>
  /\ movies = <<>>
  /\ index = 0
  /\ torrentFail = FALSE
  /\ calls = <<>>
  /\ sent = <<>>
  /\ raised = FALSE

Call(api, arg) == Append(calls, [api |-> api, arg |-> arg])

\* res.status(s).json(b); return
Respond(status, b) ==
  /\ sent' = Append(sent, [status |-> status, body |-> b])
  /\ pc' = "done"

\* a catch block that answers with what was accumulated
catch_partial(acc) == [status |-> 200, body |-> List(acc)]

\* the catch block of a handler
catch_error(acc) == [status |-> 500, body |-> Msg("Server error")]

Catch(acc) ==
  /\ sent' = Append(sent, catch_error(acc))
  /\ pc' = "done"

Throws(outcome) == outcome.t \in {"neterr", "badjson"}
NetErr == [t |-> "neterr"]
BadJson == [t |-> "badjson"]

\* ============================================================ list by page
YtsPages == {List(l) : l \in SeqUpTo({YtsRaw(id, r, <<10>>) : id \in Ids, r \in Ratings}, MaxMovies)}
PopPages == {List(l) : l \in SeqUpTo({PopRaw(id, r, <<10>>) : id \in Ids, r \in Ratings}, MaxMovies)}

PageRequest ==
  /\ pc = "idle"
  /\ \E valid \in BOOLEAN, sort_by \in SortFields,
        y \in YtsPages \cup {Falsy, NetErr},
        p \in PopPages \cup {Falsy, NetErr},
        inf \in {"ok", "throw"} :
       /\ handler' = "page"
       /\ query' = [valid |-> valid, sort_by |-> sort_by]
       /\ up' = [yts |-> y, pop |-> p, info |-> inf]
       /\ IF ~valid
          THEN Respond(400, Msg("Parameter Error"))
          ELSE pc' = "page_yts" /\ UNCHANGED sent
  /\ UNCHANGED <<ytsResult, popResult, body, movies, index, torrentFail, calls, raised>>

\* line 37
PageNotFound(yts) == Not(yts)

\* line 41 without the _.isEmpty test
PagePopEmptyFalsyOnly(pop) == Not(pop)

\* line 41
PagePopEmpty(pop) == Not(pop) \/ isEmpty(pop)

\* lines 44-46 without the _.uniqBy of line 45
PageMergeNoUniq(yts, pop, sort_by) == orderBy(concat(yts, pop), sort_by, "desc")

\* lines 44-46
PageMerge(yts, pop, sort_by) ==
  orderBy(uniqBy(concat(yts, pop), "imdb_code"), sort_by, "desc")

\* line 33
PageYts ==
  /\ pc = "page_yts"
  /\ calls' = Call("yts", "page")
  /\ IF Throws(up.yts)
     THEN /\ raised' = TRUE
          /\ Catch(<<>>)
          /\ UNCHANGED ytsResult
     ELSE /\ ytsResult' = getMovies(up.yts, "yts")
          /\ pc' = "page_info"
          /\ UNCHANGED <<sent, raised>>
  /\ UNCHANGED <<handler, query, up, popResult, body, movies, index, torrentFail>>

\* lines 34-37
PageInfo ==
  /\ pc = "page_info"
  /\ IF ytsResult.t = "list" /\ up.info = "throw"
     THEN /\ calls' = Call("info", "page")
          /\ raised' = TRUE
          /\ Catch(<<>>)
          /\ UNCHANGED ytsResult
     ELSE /\ calls' = IF ytsResult.t = "list" THEN Call("info", "page") ELSE calls
          /\ ytsResult' = getMovieMoreInfo(ytsResult)
          /\ IF PageNotFound(ytsResult')
             THEN Respond(404, Msg("Result not found"))
             ELSE pc' = "page_pop" /\ UNCHANGED sent
          /\ UNCHANGED raised
  /\ UNCHANGED <<handler, query, up, popResult, body, movies, index, torrentFail>>

\* lines 40-47
PagePop ==
  /\ pc = "page_pop"
  /\ calls' = Call("pop", "page")
  /\ IF Throws(up.pop)
     THEN /\ raised' = TRUE
          /\ Catch(<<>>)
          /\ UNCHANGED popResult
     ELSE /\ popResult' = getMovies(up.pop, "pop")
          /\ IF PagePopEmpty(popResult')
             THEN Respond(200, ytsResult)
             ELSE Respond(200, List(PageMerge(ytsResult.v, popResult'.v, query.sort_by)))
          /\ UNCHANGED raised
  /\ UNCHANGED <<handler, query, up, ytsResult, body, movies, index, torrentFail>>

\* ==================================================== lookup by identifier
LookupYtsBodies(id) ==
  {List(<<YtsRaw(id, 7, s)>>) : s \in SeqUpTo(SeedVals, MaxTorrents)}
LookupPopBodies(id) ==
  {[t |-> "obj", v |-> PopRaw(id, 7, s)] : s \in SeqUpTo(SeedVals, MaxTorrents)}

LookupRequest ==
  /\ pc = "idle"
  /\ \E valid \in BOOLEAN, id \in Ids, inf \in {"ok", "throw"} :
       \E y \in LookupYtsBodies(id) \cup {Falsy, NetErr, BadJson},
          p \in LookupPopBodies(id) \cup {Falsy, NetErr, BadJson} :
         /\ handler' = "imdb_code"
         /\ query' = [valid |-> valid, imdb_code |-> id]
         /\ up' = [yts |-> y, pop |-> p, info |-> inf]
         /\ IF ~valid
            THEN Respond(400, Msg("ID is required"))
            ELSE pc' = "lookup_yts" /\ UNCHANGED sent
  /\ UNCHANGED <<ytsResult, popResult, body, movies, index, torrentFail, calls, raised>>

\* line 155 with the test dropped
LookupNotFoundNever(ytsMovies) == FALSE

\* line 155: !parsedMoviesYts.data.movies
LookupNotFound(ytsMovies) == Not(ytsMovies)

\* line 174: the record whose first torrent has more seeds, yts when equal
LookupBest(ytsData, popData) ==
  IF ytsData[1].torrents[1].seeds >= popData[1].torrents[1].seeds
  THEN ytsData
  ELSE popData

\* line 174 reads [0] of both torrent lists before comparing
LookupTypeError(ytsData, popData) ==
  \/ Len(ytsData) = 0 \/ Len(popData) = 0
  \/ Len(ytsData[1].torrents) = 0 \/ Len(popData[1].torrents) = 0

\* lines 149-158
LookupYts ==
  /\ pc = "lookup_yts"
  /\ calls' = Call("yts", query.imdb_code)
  /\ IF Throws(up.yts)
     THEN /\ raised' = TRUE
          /\ Catch(<<>>)
          /\ UNCHANGED ytsResult
     ELSE IF LookupNotFound(up.yts)
     THEN /\ Respond(404, Msg("Movie not found"))
          /\ UNCHANGED <<ytsResult, raised>>
     ELSE IF up.yts.t # "list"
     THEN \* formatYtsResponse(undefined): a TypeError, caught
          /\ Catch(<<>>)
          /\ UNCHANGED <<ytsResult, raised>>
     ELSE /\ ytsResult' = List(formatYtsResponse(up.yts.v))
          /\ pc' = "lookup_pop"
          /\ UNCHANGED <<sent, raised>>
  /\ UNCHANGED <<handler, query, up, popResult, body, movies, index, torrentFail>>

\* lines 161-176, up to the await of getMovieMoreInfo
LookupPop ==
  /\ pc = "lookup_pop"
  /\ calls' = Call("pop", query.imdb_code)
  /\ IF Throws(up.pop)
     THEN /\ raised' = TRUE
          /\ Catch(<<>>)
          /\ UNCHANGED <<popResult, movies>>
     ELSE IF Not(up.pop)
     THEN /\ Respond(200, ytsResult)
          /\ UNCHANGED <<popResult, movies, raised>>
     ELSE LET parsedMoviesPop == <<up.pop.v>>
              popData == formatPopResponse(parsedMoviesPop)
          IN IF isEmpty(List(parsedMoviesPop))
             THEN /\ Respond(200, ytsResult)
                  /\ UNCHANGED <<popResult, movies, raised>>
             ELSE IF LookupTypeError(ytsResult.v, popData)
             THEN /\ Catch(<<>>)
                  /\ popResult' = List(popData)
                  /\ UNCHANGED <<movies, raised>>
             ELSE /\ popResult' = List(popData)
                  /\ movies' = LookupBest(ytsResult.v, popData)
                  /\ pc' = "lookup_info"
                  /\ UNCHANGED <<sent, raised>>
  /\ UNCHANGED <<handler, query, up, ytsResult, body, index, torrentFail>>

\* lines 175-178
LookupInfo ==
  /\ pc = "lookup_info"
  /\ calls' = Call("info", query.imdb_code)
  /\ IF up.info = "throw"
     THEN raised' = TRUE /\ Catch(<<>>)
     ELSE Respond(200, getMovieMoreInfo(List(movies))) /\ UNCHANGED raised
  /\ UNCHANGED <<handler, query, up, ytsResult, popResult, body, movies, index, torrentFail>>

\* =========================================================== list by genre
GenreRequest ==
  /\ pc = "idle"
  /\ \E valid \in BOOLEAN, genre \in Genres, p \in PopPages \cup {Falsy, NetErr, BadJson} :
       /\ handler' = "genre"
       /\ query' = [valid |-> valid, genre |-> genre]
       /\ up' = [pop |-> p]
       /\ IF ~valid
          THEN Respond(400, Msg("Not valid genre"))
          ELSE pc' = "genre_pop" /\ UNCHANGED sent
  /\ UNCHANGED <<ytsResult, popResult, body, movies, index, torrentFail, calls, raised>>

\* lines 201-205
GenrePop ==
  /\ pc = "genre_pop"
  /\ calls' = Call("pop", query.genre)
  /\ IF Throws(up.pop)
     THEN /\ raised' = TRUE
          /\ Catch(<<>>)
          /\ UNCHANGED popResult
     ELSE /\ popResult' = IF Not(up.pop) THEN Falsy ELSE List(formatPopResponse(up.pop.v))
          /\ Respond(200, popResult')
          /\ UNCHANGED raised
  /\ UNCHANGED <<handler, query, up, ytsResult, body, movies, index, torrentFail>>

\* ======================================================= search by keyword
\* what yts and popcorn hold for an identifier when they hold something
KwYtsRaw(id) == YtsRaw(id, 7, IF id = "tt1" THEN <<50>> ELSE <<10, 80>>)
KwPopRaw(id) == PopRaw(id, 8, IF id = "tt1" THEN <<80>> ELSE <<50>>)

\* the search provider's parsed answers: a match list, or no match
SearchBodies ==
  {[Response |-> "True", Search |-> List([i \in 1..Len(l) |-> [imdbID |-> l[i]]])] :
     l \in NonEmptySeqUpTo(Ids, MaxCand)}
  \cup {[Response |-> "False", Search |-> Falsy]}

KeywordRequest ==
  /\ pc = "idle"
  /\ \E valid \in BOOLEAN, keyword \in Keywords, inf \in {"ok", "throw"},
        s \in {[t |-> "json", v |-> b] : b \in SearchBodies} \cup {NetErr, BadJson},
        y \in [Ids -> {"neterr", "badjson", "none", "data"}],
        p \in [Ids -> {"neterr", "badjson", "empty", "data"}] :
       /\ handler' = "keyword"
       /\ query' = [valid |-> valid, keyword |-> keyword]
       /\ up' = [search |-> s, yts |-> y, pop |-> p, info |-> inf]
       /\ IF ~valid
          THEN Respond(400, Msg("Keyword id is required"))
          ELSE pc' = "kw_search" /\ UNCHANGED sent
  /\ UNCHANGED <<ytsResult, popResult, body, movies, index, torrentFail, calls, raised>>

\* line 84 without _.uniqBy
KwCandidatesRaw(Search) == IF Search.t = "list" THEN Search.v ELSE <<>>

\* line 84: _.uniqBy(body.Search, "imdbID"), [] when Search is undefined
KwCandidates(Search) ==
  IF Search.t = "list" THEN uniqBy(Search.v, "imdbID") ELSE <<>>

\* line 85 with the test dropped
KwNoMatchNever(parsed) == FALSE

\* line 85
KwNoMatch(parsed) == parsed.Response # "True"

\* lines 88 and 105: index++
NextIndex(i) == i + 1

\* lines 122-125
KwFinish(ms) ==
  /\ movies' = uniqWith_retMax(orderBy(ms, "title", "asc"))
  /\ Respond(200, List(movies'))

\* line 104 and the entry of the loop of line 105
KwStartPop(ms, Search) ==
  /\ index' = 0
  /\ IF 0 < Len(Search)
     THEN /\ movies' = orderBy(ms, "title", "asc")
          /\ pc' = "kw_pop"
          /\ UNCHANGED sent
     ELSE KwFinish(orderBy(ms, "title", "asc"))

\* lines 82-88
KwSearch ==
  /\ pc = "kw_search"
  /\ calls' = Call("search", query.keyword)
  /\ IF Throws(up.search)
     THEN /\ raised' = TRUE
          /\ Catch(movies)
          /\ UNCHANGED <<body, movies, index>>
     ELSE /\ body' = KwCandidates(up.search.v.Search)
          /\ UNCHANGED raised
          /\ IF KwNoMatch(up.search.v)
             THEN /\ Respond(404, Msg("Result not found"))
                  /\ UNCHANGED <<movies, index>>
             ELSE IF 0 < Len(body')
             THEN /\ pc' = "kw_yts"
                  /\ index' = 0
                  /\ UNCHANGED <<movies, sent>>
             ELSE KwStartPop(movies, body')
  /\ UNCHANGED <<handler, query, up, ytsResult, popResult, torrentFail>>

\* lines 89-101
KwYts ==
  /\ pc = "kw_yts"
  /\ LET id == body[index + 1].imdbID
         answer == up.yts[id]
     IN /\ calls' = Call("yts", id)
        /\ IF answer \in {"neterr", "badjson"}
           THEN /\ raised' = TRUE
                /\ Catch(movies)
                /\ UNCHANGED <<ytsResult, movies, index, torrentFail>>
           ELSE IF answer = "none"
           THEN /\ torrentFail' = TRUE
                /\ ytsResult' = Falsy
                /\ UNCHANGED raised
                /\ KwStartPop(movies, body)   \* break
           ELSE /\ ytsResult' = List(formatYtsResponse(<<KwYtsRaw(id)>>))
                /\ movies' = concat(ytsResult'.v, movies)
                /\ pc' = "kw_info"
                /\ UNCHANGED <<index, torrentFail, sent, raised>>
  /\ UNCHANGED <<handler, query, up, popResult, body>>

\* lines 102-104
KwInfo ==
  /\ pc = "kw_info"
  /\ calls' = Call("info", body[index + 1].imdbID)
  /\ IF up.info = "throw"
     THEN /\ raised' = TRUE
          /\ Catch(movies)
          /\ UNCHANGED <<movies, index>>
     ELSE /\ UNCHANGED raised
          /\ IF NextIndex(index) < Len(body)
             THEN /\ movies' = getMovieMoreInfo(List(movies)).v
                  /\ index' = NextIndex(index)
                  /\ pc' = "kw_yts"
                  /\ UNCHANGED sent
             ELSE KwStartPop(getMovieMoreInfo(List(movies)).v, body)
  /\ UNCHANGED <<handler, query, up, ytsResult, popResult, body, torrentFail>>

\* lines 105-125
KwPop ==
  /\ pc = "kw_pop"
  /\ LET id == body[index + 1].imdbID
         answer == up.pop[id]
         parsedMoviesPop == <<KwPopRaw(id)>>
         popData == formatPopResponse(parsedMoviesPop)
         after == IF answer = "empty" THEN movies ELSE concat(popData, movies)
     IN /\ calls' = Call("pop", id)
        /\ IF answer \in {"neterr", "badjson"}
           THEN /\ raised' = TRUE
                /\ Catch(movies)
                /\ UNCHANGED <<popResult, movies, index>>
           ELSE IF answer # "empty" /\ isEmpty(List(parsedMoviesPop)) /\ torrentFail
           THEN /\ Respond(404, Msg("Torrent not found"))
                /\ UNCHANGED <<popResult, movies, index, raised>>
           ELSE IF answer # "empty" /\ isEmpty(List(parsedMoviesPop)) /\ ~torrentFail
           THEN /\ Respond(200, List(movies))
                /\ UNCHANGED <<popResult, movies, index, raised>>
           ELSE /\ popResult' = IF answer = "empty" THEN Falsy ELSE List(popData)
                /\ index' = NextIndex(index)
                /\ UNCHANGED raised
                /\ IF index' < Len(body)
                   THEN movies' = after /\ UNCHANGED <<pc, sent>>
                   ELSE KwFinish(after)
  /\ UNCHANGED <<handler, query, up, ytsResult, body, torrentFail>>

Next ==
  \/ PageRequest \/ PageYts \/ PageInfo \/ PagePop
  \/ LookupRequest \/ LookupYts \/ LookupPop \/ LookupInfo
  \/ GenreRequest \/ GenrePop
  \/ KeywordRequest \/ KwSearch \/ KwYts \/ KwInfo \/ KwPop

Spec == Init /\ [][Next]_vars

\* ================================================================== claims
Done == pc = "done"
Status == sent[1].status
Sorted(list, key, dir) ==
  \A i \in 1..Len(list) - 1 :
    ~Before(SortKey(list[i + 1], key), SortKey(list[i], key), dir)
CallsTo(api, arg) ==
  Cardinality({i \in 1..Len(calls) : calls[i] = [api |-> api, arg |-> arg]})
NoCallTo(api) == \A i \in 1..Len(calls) : calls[i].api # api
PopHasPage == popResult.t = "list" /\ Len(popResult.v) > 0

\* C1: list by page, both providers returning data: the 200 list holds every
\* identifier of the two lists once, and the record kept for an identifier is
\* its first occurrence in yts-then-popcorn order (the yts one when both have it).
C1_PageMergeUnique ==
  (handler = "page" /\ Done /\ PopHasPage /\ Status = 200) =>
    LET out == sent[1].body.v
        all == ytsResult.v \o popResult.v
    IN /\ \A i, j \in 1..Len(out) : i # j => out[i].imdb_code # out[j].imdb_code
       /\ \A i \in 1..Len(out) : \E k \in 1..Len(all) :
            /\ all[k] = out[i]
            /\ \A m \in 1..(k - 1) : all[m].imdb_code # out[i].imdb_code
       /\ \A k \in 1..Len(all) : \E i \in 1..Len(out) :
            out[i].imdb_code = all[k].imdb_code

\* a 200 answer where one identifier came from both providers with different
\* ratings and the list kept the yts record
C1_Witness ==
  /\ handler = "page" /\ Done /\ PopHasPage /\ Status = 200
  /\ \E i \in 1..Len(ytsResult.v), j \in 1..Len(popResult.v) :
       /\ ytsResult.v[i].imdb_code = popResult.v[j].imdb_code
       /\ ytsResult.v[i].rating # popResult.v[j].rating
  /\ Len(sent[1].body.v) < Len(ytsResult.v) + Len(popResult.v)

\* C2: list by page: every list sent with status 200 is in descending order of
\* the requested field, on the merge path and on the path that returns the
\* yts list alone.
C2_PageAlwaysSortedDesc ==
  (handler = "page" /\ Done /\ Status = 200) =>
    Sorted(sent[1].body.v, query.sort_by, "desc")

\* C3: list by page and lookup by identifier: when yts has no data the request
\* issues no popcorn request and ends with status 404, whatever popcorn holds.
C3_PrimaryMissingIs404 ==
  (handler \in {"page", "imdb_code"} /\ query.valid /\ Not(up.yts)) =>
    /\ NoCallTo("pop")
    /\ Done => (Len(sent) = 1 /\ Status = 404)

\* a finished lookup where yts had nothing and popcorn had a record
C3_Witness ==
  /\ handler = "imdb_code" /\ Done /\ query.valid
  /\ Not(up.yts) /\ up.pop.t = "obj"
  /\ CallsTo("yts", query.imdb_code) = 1

\* C4: list by page: when popcorn returns nothing (falsy or an empty list) and
\* yts returns a list, the answer is 200 with the yts list as the handler holds
\* it: the provider's records in the provider's order, none added or dropped.
C4_PagePopEmptyReturnsYts ==
  (handler = "page" /\ Done /\ ~raised /\ query.valid /\ up.yts.t = "list"
     /\ (Not(up.pop) \/ isEmpty(up.pop))) =>
    /\ Status = 200
    /\ sent[1].body = ytsResult
    /\ Len(sent[1].body.v) = Len(up.yts.v)
    /\ \A i \in 1..Len(up.yts.v) :
         /\ sent[1].body.v[i].imdb_code = up.yts.v[i].imdb_code
         /\ sent[1].body.v[i].rating = up.yts.v[i].rating

\* popcorn answers an empty list; yts answers two records of one identifier in
\* ascending order of the requested field
C4_Witness ==
  /\ handler = "page" /\ Done /\ ~raised /\ query.valid
  /\ up.pop.t = "list" /\ Len(up.pop.v) = 0
  /\ up.yts.t = "list" /\ Len(up.yts.v) = 2
  /\ up.yts.v[1].imdb_code = up.yts.v[2].imdb_code
  /\ query.sort_by = "rating" /\ up.yts.v[1].rating < up.yts.v[2].rating
  /\ Status = 200

\* C5: lookup by identifier, both providers returning a record: the record
\* answered is the one whose greatest seed count over all its torrents is the
\* greater, in whatever order the torrents come.
C5_LookupReturnsMaxSeedRecord ==
  (handler = "imdb_code" /\ Done /\ Status = 200 /\ popResult.t = "list") =>
    LET y == ytsResult.v[1]
        p == popResult.v[1]
        out == sent[1].body.v[1]
    IN /\ MaxSeed(y) > MaxSeed(p) => out = [y EXCEPT !.info = TRUE]
       /\ MaxSeed(p) > MaxSeed(y) => out = [p EXCEPT !.info = TRUE]

\* C6: search by keyword: when yts has no data for any candidate the search
\* provider returned, the answer is 404, whatever popcorn holds.
C6_KeywordNoPrimaryIs404 ==
  (handler = "keyword" /\ Done /\ query.valid /\ ~raised
     /\ up.search.t = "json" /\ up.search.v.Response = "True"
     /\ \A i \in 1..Len(body) : up.yts[body[i].imdbID] = "none") =>
    Status = 404

\* C7: search by keyword: a candidate yts has nothing for is skipped, and every
\* later candidate yts does have data for is still requested from yts.
C7_KeywordSkipAndContinue ==
  (handler = "keyword" /\ Done /\ query.valid /\ ~raised /\ Status = 200) =>
    \A i, j \in 1..Len(body) :
      (i < j /\ up.yts[body[i].imdbID] = "none" /\ up.yts[body[j].imdbID] = "data")
        => CallsTo("yts", body[j].imdbID) = 1

\* C8: search by keyword: when the search provider reports no match, neither
\* yts nor popcorn is requested and the answer is 404 "Result not found".
C8_KeywordNoMatchIs404 ==
  (handler = "keyword" /\ query.valid /\ up.search.t = "json"
     /\ up.search.v.Response # "True") =>
    /\ NoCallTo("yts") /\ NoCallTo("pop") /\ NoCallTo("info")
    /\ Done => sent = <<[status |-> 404, body |-> Msg("Result not found")]>>

\* a finished keyword request whose search found nothing
C8_Witness ==
  /\ handler = "keyword" /\ Done /\ query.valid
  /\ up.search.t = "json" /\ up.search.v.Response = "False"
  /\ CallsTo("search", query.keyword) = 1
  /\ \E id \in Ids : up.yts[id] = "data" /\ up.pop[id] = "data"

\* C9: no retries: in every handler no request to the search provider, yts or
\* popcorn is issued twice for the same argument, nothing is requested after a
\* request that threw, and a keyword request that passed validation has
\* called the search provider exactly once when it ends.
C9_NoRetries ==
  /\ \A i, j \in 1..Len(calls) :
       (i # j /\ calls[i].api \in {"search", "yts", "pop"}) => calls[i] # calls[j]
  /\ raised => Done
  /\ (handler = "keyword" /\ query.valid /\ Done) => CallsTo("search", query.keyword) = 1

\* a keyword request that ran both loops to the end over a Search array that
\* named one identifier twice
C9_Witness ==
  /\ handler = "keyword" /\ Done /\ Status = 200 /\ ~raised
  /\ up.search.t = "json" /\ up.search.v.Response = "True"
  /\ Len(up.search.v.Search.v) > Len(body)
  /\ \A i \in 1..Len(body) :
       CallsTo("yts", body[i].imdbID) = 1 /\ CallsTo("pop", body[i].imdbID) = 1

\* C10: in every handler a failure raised by an upstream step ends the request
\* with one response, 500 "Server error"; no request sends two responses, and
\* none sends a 200 after a failure.
C10_FailureIs500 ==
  /\ Len(sent) <= 1
  /\ Done => Len(sent) = 1
  /\ raised => (Done /\ sent = <<[status |-> 500, body |-> Msg("Server error")]>>)

\* a keyword request that failed in the popcorn loop with records accumulated
C10_Witness ==
  /\ handler = "keyword" /\ raised /\ Done
  /\ Len(movies) > 0
  /\ \E i \in 1..Len(calls) : calls[i].api = "pop"
====
